---- MODULE Spec2Model ----
(***************************************************************************)
(* Fortuna's internal generator (Random/Fortuna/FortunaGenerator.py):      *)
(* BaseFortunaGenerator, its AES instantiation AESGenerator, and           *)
(* encode_counter.                                                         *)
(*                                                                         *)
(* Byte strings.  The cipher and the hash are external primitives; their   *)
(* results are kept as terms, so two strings are equal exactly when they   *)
(* were derived the same way.  A byte string is a sequence of segments     *)
(*     [f, k, x, n]      (n >= 1 bytes)                                    *)
(*   f = "zero": n bytes of value 0                                        *)
(*   f = "seed": the n bytes of caller-supplied seed number x              *)
(*   f = "hash": the first n bytes of SHAd256(k).digest(), k a byte string *)
(*   f = "aes" : the first n bytes of the blocks                           *)
(*               AES_k(encode_counter(x)) AES_k(encode_counter(x+1)) ...   *)
(* The empty string is << >>.  join keeps the form canonical: successive   *)
(* whole blocks under one key with consecutive counters are one segment.   *)
(***************************************************************************)
EXTENDS Integers, Sequences, FiniteSets, TLC

VARIABLES gen, log, enc, wide, thr

vars == <<gen, log, enc, wide, thr>>

(***************************************************************************)
(* Class attributes of AESGenerator and the literals of the source.        *)
(***************************************************************************)
block_size == 16

key_size == 32

max_blocks_per_request == 65536

chunk_shift == 20

digest_size == 32

chunk_size == 2 ^ chunk_shift

(***************************************************************************)
(* Bounds of the model.                                                    *)
(***************************************************************************)
MaxCalls == 3

MaxSeedLen == 2

MaxSize == 6

MaxDigits == 3

MaxPairCalls == 5

MaxLoopBlocks == 4
MaxInternalCalls == 3
MaxLongCalls == 3
MaxBelow == 5

Instances == {1, 2}

Seeds == {<<1, 0>>} \cup {<<id, MaxSeedLen>> : id \in {1, 2}}

PairSeeds == {<<1, MaxSeedLen>>, <<2, MaxSeedLen>>}

PairSizes == {0, chunk_size, 2 * chunk_size}

Sizes ==
    {0, 1, block_size, block_size + 1,
     chunk_size - 1, chunk_size, chunk_size + 1, 2 * chunk_size}

(***************************************************************************)
(* Byte-string terms.                                                      *)
(***************************************************************************)
Seg(f, k, x, n) == IF n = 0 THEN << >> ELSE <<[f |-> f, k |-> k, x |-> x, n |-> n]>>

ZeroBytes(n) == Seg("zero", << >>, 0, n)

SeedBytes(s) == Seg("seed", << >>, s[1], s[2])

RECURSIVE ByteLen(_)
ByteLen(s) == IF s = << >> THEN 0 ELSE Head(s).n + ByteLen(Tail(s))

\* "".join of two strings: a + b
join(a, b) ==
    IF a = << >> THEN b
    ELSE IF b = << >> THEN a
    ELSE LET l == a[Len(a)]
             r == b[1]
         IN  IF /\ l.f = "aes" /\ r.f = "aes" /\ l.k = r.k
                /\ l.n % block_size = 0
                /\ r.x = l.x + (l.n \div block_size)
             THEN SubSeq(a, 1, Len(a) - 1)
                    \o <<[l EXCEPT !.n = l.n + r.n]>>
                    \o Tail(b)
             ELSE a \o b

\* the slice s[:n], n >= 0
RECURSIVE Slice(_, _)
Slice(s, n) ==
    IF n = 0 \/ s = << >> THEN << >>
    ELSE IF Head(s).n <= n THEN <<Head(s)>> \o Slice(Tail(s), n - Head(s).n)
    ELSE <<[Head(s) EXCEPT !.n = n]>>

\* SHAd256.new(msg).digest()
SHAd256(msg) == Seg("hash", msg, 0, digest_size)

(***************************************************************************)
(* Python long integers: a sign and the magnitude's digits in base 2^15,   *)
(* least significant first, no leading zero digit (0 has no digit).        *)
(***************************************************************************)
PyLong_BASE == 2 ^ 15

RECURSIVE Digits(_)
Digits(m) == IF m = 0 THEN << >> ELSE <<m % PyLong_BASE>> \o Digits(m \div PyLong_BASE)

\* long(n) of a machine integer n
long(n) ==
    [sign |-> IF n < 0 THEN -1 ELSE IF n = 0 THEN 0 ELSE 1,
     digits |-> Digits(IF n < 0 THEN -n ELSE n)]

RECURSIVE Normalize(_)
Normalize(ds) ==
    IF ds = << >> THEN << >>
    ELSE IF ds[Len(ds)] = 0 THEN Normalize(SubSeq(ds, 1, Len(ds) - 1))
    ELSE ds

MkLong(ds) ==
    LET t == Normalize(ds)
    IN  [sign |-> IF t = << >> THEN 0 ELSE 1, digits |-> t]

\* digit d (from 0) of the magnitude of n
Digit(n, d) == IF d < Len(n.digits) THEN n.digits[d + 1] ELSE 0

\* bits lo .. lo+cnt-1 of the magnitude of n, as a machine integer (cnt <= 15):
\* they lie in two successive digits
Bits(n, lo, cnt) ==
    ((Digit(n, lo \div 15) + PyLong_BASE * Digit(n, (lo \div 15) + 1))
        \div (2 ^ (lo % 15))) % (2 ^ cnt)

\* n >> s, for n >= 0
Shr(n, s) == MkLong([j \in 1..Len(n.digits) |-> Bits(n, s + 15 * (j - 1), 15)])

\* n & (2^bits - 1), for n >= 0
AndMask(n, bits) ==
    MkLong([j \in 1..((bits + 14) \div 15) |->
              Bits(n, 15 * (j - 1),
                   IF bits - 15 * (j - 1) < 15 THEN bits - 15 * (j - 1) ELSE 15)])

\* struct.pack(">I", w): the four bytes most significant first
pack_I_big_endian(w) == <<Bits(w, 24, 8), Bits(w, 16, 8), Bits(w, 8, 8), Bits(w, 0, 8)>>

\* struct.pack("<I", w), 0 <= w < 2^32: four bytes, least significant first
pack_I(w) == <<Bits(w, 0, 8), Bits(w, 8, 8), Bits(w, 16, 8), Bits(w, 24, 8)>>

\* chr(v), 0 <= v < 256: one byte
chr(v) == <<Bits(v, 0, 8)>>

(***************************************************************************)
(* encode_counter(n, size), n a long.  The result is [err, retval]:        *)
(* retval a sequence of byte values, err "ok", "InvalidCounter" (the       *)
(* AssertionError of line 156) or "Overflow" (the OverflowError of 168).   *)
(***************************************************************************)
\* for i in range(q): retval.append(pack("<I", n & 0xFFFFffffL)); n >>= 32
RECURSIVE encode_words(_, _, _)
encode_words(st, i, q) ==
    IF i >= q THEN st
    ELSE encode_words([retval |-> st.retval \o pack_I(AndMask(st.n, 32)),
                       n |-> Shr(st.n, 32)], i + 1, q)

\* for i in range(r): retval.append(chr(n & 0xff)); n >>= 8
RECURSIVE encode_bytes(_, _, _)
encode_bytes(st, i, r) ==
    IF i >= r THEN st
    ELSE encode_bytes([retval |-> st.retval \o chr(AndMask(st.n, 8)),
                       n |-> Shr(st.n, 8)], i + 1, r)

\* encode_counter without the overflow check of lines 167-168
encode_counter_truncating(n, size) ==
    IF n.sign <= 0 THEN [err |-> "InvalidCounter", retval |-> << >>]
    ELSE [err |-> "ok",
          retval |-> encode_bytes(encode_words([retval |-> << >>, n |-> n],
                                               0, size \div 4), 0, size % 4).retval]

encode_counter(n, size) ==
    IF n.sign <= 0 THEN [err |-> "InvalidCounter", retval |-> << >>]
    ELSE LET q == size \div 4
             r == size % 4
             w == encode_words([retval |-> << >>, n |-> n], 0, q)
             b == encode_bytes(w, 0, r)
         IN  IF b.n.sign # 0 THEN [err |-> "Overflow", retval |-> << >>]
             ELSE [err |-> "ok", retval |-> b.retval]

(***************************************************************************)
(* BaseFortunaGenerator.  An instance is self = [key, counter, blocks]:    *)
(* key and counter are the attributes of the source; blocks is history,    *)
(* one entry [k, x, n] for every run of n >= 1 blocks generated under key  *)
(* k from the counter values x .. x+n-1, in order of generation.           *)
(* A method returns [self, err, retval]: the instance as the call leaves   *)
(* it, "ok" or the exception raised, and the returned byte string.         *)
(***************************************************************************)
\* exact_log2(n): the k with 2^k = n
RECURSIVE exact_log2(_)
exact_log2(n) == IF n <= 1 THEN 0 ELSE 1 + exact_log2(n \div 2)

\* exact_div(p, d)
exact_div(p, d) == p \div d

\* ceil_shift(n, b) = ceil(n / 2^b)
ceil_shift(n, b) == (n \div (2 ^ b)) + (IF n % (2 ^ b) # 0 THEN 1 ELSE 0)

block_size_shift == exact_log2(block_size)

blocks_per_key == exact_div(key_size, block_size)

\* max_bytes_per_request without the factor block_size of line 63
max_bytes_per_request_in_blocks == max_blocks_per_request

max_bytes_per_request == max_blocks_per_request * block_size

\* F(v) with v evaluated once (a local name of the source)
Bind(v, F(_)) == CHOOSE y \in {F(x) : x \in {v}} : TRUE

Raise(self, err) == [self |-> self, err |-> err, retval |-> << >>]

Return(self, retval) == [self |-> self, err |-> "ok", retval |-> retval]

\* BaseFortunaGenerator.__init__
__init__ == [key |-> ZeroBytes(key_size), counter |-> 0, blocks |-> << >>]

\* AESGenerator._generate_single_block
_generate_single_block(self, counter) ==
    IF counter = 0 THEN Raise(self, "ZeroCounter")
    ELSE Bind(encode_counter(long(counter), block_size), LAMBDA e :
             IF e.err # "ok" THEN Raise(self, e.err)
             ELSE Return(self, Seg("aes", self.key, counter, Len(e.retval))))

\* the loop of lines 106-108, one iteration at a time
RECURSIVE generate_blocks_loop(_, _, _)
generate_blocks_loop(st, i, num_blocks) ==
    IF i >= num_blocks \/ st.err # "ok" THEN st
    ELSE Bind(_generate_single_block(st.self, st.self.counter), LAMBDA block :
         Bind(IF block.err # "ok" THEN Raise(st.self, block.err)
              ELSE Return([st.self EXCEPT !.counter = st.self.counter + 1],
                          join(st.retval, block.retval)),
              LAMBDA nxt : generate_blocks_loop(nxt, i + 1, num_blocks)))

\* _generate_blocks without the seeded check of lines 102-103
_generate_blocks_unchecked(self, num_blocks) ==
    IF num_blocks = 0 THEN Return(self, << >>)
    ELSE Bind(_generate_single_block(self, self.counter), LAMBDA first :
             IF first.err # "ok" THEN first
             ELSE Return([self EXCEPT
                            !.counter = self.counter + num_blocks,
                            !.blocks = Append(self.blocks,
                                [k |-> self.key, x |-> self.counter, n |-> num_blocks])],
                         join(first.retval,
                              Seg("aes", self.key, self.counter + 1,
                                  (num_blocks - 1) * block_size))))

\* _generate_blocks whose loop skips the increment of line 108 after the last block
_generate_blocks_lost_increment(self, num_blocks) ==
    IF self.counter = 0 THEN Raise(self, "NotSeeded")
    ELSE IF num_blocks = 0 THEN Return(self, << >>)
    ELSE Return([self EXCEPT
                   !.counter = self.counter + num_blocks - 1,
                   !.blocks = Append(self.blocks,
                       [k |-> self.key, x |-> self.counter, n |-> num_blocks])],
                Seg("aes", self.key, self.counter, num_blocks * block_size))

(***************************************************************************)
(* _generate_blocks.  The loop of lines 106-108 runs num_blocks times;     *)
(* its iteration i = 0, 1, ... generates the block of counter value        *)
(* self.counter + i under self.key (which the loop does not write) and     *)
(* then adds 1 to self.counter.  The joined blocks are one segment.        *)
(***************************************************************************)
_generate_blocks(self, num_blocks) ==
    IF self.counter = 0 THEN Raise(self, "NotSeeded")
    ELSE IF ~(0 <= num_blocks /\ num_blocks <= max_blocks_per_request)
    THEN Raise(self, "AssertionError")
    ELSE IF num_blocks = 0 THEN Return(self, << >>)
    ELSE Bind(_generate_single_block(self, self.counter), LAMBDA first :
             IF first.err # "ok" THEN first
             ELSE Return([self EXCEPT
                            !.counter = self.counter + num_blocks,
                            !.blocks = Append(self.blocks,
                                [k |-> self.key, x |-> self.counter, n |-> num_blocks])],
                         join(first.retval,
                              Seg("aes", self.key, self.counter + 1,
                                  (num_blocks - 1) * block_size))))

\* _pseudo_random_data returning whole blocks: the slice [:bytes] of line 90 and
\* the length assertion of line 96 dropped
_pseudo_random_data_whole_blocks(self, bytes) ==
    IF ~(0 <= bytes /\ bytes <= max_bytes_per_request)
    THEN Raise(self, "RequestTooLarge")
    ELSE Bind(_generate_blocks(self, ceil_shift(bytes, block_size_shift)), LAMBDA out :
         IF out.err # "ok" THEN out
         ELSE Bind(_generate_blocks(out.self, blocks_per_key), LAMBDA rekey :
              IF rekey.err # "ok" THEN rekey
              ELSE Return([rekey.self EXCEPT !.key = rekey.retval], out.retval)))

\* _pseudo_random_data without the key switch of line 94
_pseudo_random_data_same_key(self, bytes) ==
    IF ~(0 <= bytes /\ bytes <= max_bytes_per_request)
    THEN Raise(self, "RequestTooLarge")
    ELSE Bind(_generate_blocks(self, ceil_shift(bytes, block_size_shift)), LAMBDA out :
         IF out.err # "ok" THEN out
         ELSE Return(out.self, Slice(out.retval, bytes)))

\* _pseudo_random_data whose range check of lines 84-85 comes after the blocks
\* were generated and the key was switched
_pseudo_random_data_late_check(self, bytes) ==
    Bind(_generate_blocks(self, ceil_shift(bytes, block_size_shift) % (max_blocks_per_request + 1)),
         LAMBDA out :
         IF out.err # "ok" THEN out
         ELSE Bind(_generate_blocks(out.self, blocks_per_key), LAMBDA rekey :
              IF rekey.err # "ok" THEN rekey
              ELSE IF ~(0 <= bytes /\ bytes <= max_bytes_per_request)
              THEN Raise([rekey.self EXCEPT !.key = rekey.retval], "RequestTooLarge")
              ELSE Return([rekey.self EXCEPT !.key = rekey.retval],
                          Slice(out.retval, bytes))))

\* _pseudo_random_data that checks the seeding itself before the range of bytes
_pseudo_random_data_seeded_first(self, bytes) ==
    IF self.counter = 0 THEN Raise(self, "NotSeeded")
    ELSE IF ~(0 <= bytes /\ bytes <= max_bytes_per_request)
    THEN Raise(self, "RequestTooLarge")
    ELSE Bind(_generate_blocks(self, ceil_shift(bytes, block_size_shift)), LAMBDA out :
         IF out.err # "ok" THEN out
         ELSE Bind(_generate_blocks(out.self, blocks_per_key), LAMBDA rekey :
              IF rekey.err # "ok" THEN rekey
              ELSE Return([rekey.self EXCEPT !.key = rekey.retval],
                          Slice(out.retval, bytes))))

\* _pseudo_random_data with lines 90 and 94 in the other order: the key is
\* switched first and the output is generated under the new key
_pseudo_random_data_rekey_first(self, bytes) ==
    IF ~(0 <= bytes /\ bytes <= max_bytes_per_request)
    THEN Raise(self, "RequestTooLarge")
    ELSE Bind(_generate_blocks(self, blocks_per_key), LAMBDA rekey :
         IF rekey.err # "ok" THEN rekey
         ELSE Bind(_generate_blocks([rekey.self EXCEPT !.key = rekey.retval],
                                    ceil_shift(bytes, block_size_shift)), LAMBDA out :
              IF out.err # "ok" THEN out
              ELSE Return(out.self, Slice(out.retval, bytes))))

\* _pseudo_random_data whose key blocks start again at the counter value the
\* output started at
_pseudo_random_data_rekey_from_start(self, bytes) ==
    IF ~(0 <= bytes /\ bytes <= max_bytes_per_request)
    THEN Raise(self, "RequestTooLarge")
    ELSE Bind(_generate_blocks(self, ceil_shift(bytes, block_size_shift)), LAMBDA out :
         IF out.err # "ok" THEN out
         ELSE Bind(_generate_blocks([out.self EXCEPT !.counter = self.counter],
                                    blocks_per_key), LAMBDA rekey :
              IF rekey.err # "ok" THEN rekey
              ELSE Return([rekey.self EXCEPT !.key = rekey.retval],
                          Slice(out.retval, bytes))))

_pseudo_random_data(self, bytes) ==
    IF ~(0 <= bytes /\ bytes <= max_bytes_per_request)
    THEN Raise(self, "RequestTooLarge")
    ELSE Bind(_generate_blocks(self, ceil_shift(bytes, block_size_shift)), LAMBDA out :
         IF out.err # "ok" THEN out
         ELSE Bind(Slice(out.retval, bytes), LAMBDA retval :
              Bind(_generate_blocks(out.self, blocks_per_key), LAMBDA rekey :
              IF rekey.err # "ok" THEN rekey
              ELSE IF ByteLen(retval) # bytes \/ ByteLen(rekey.retval) # key_size
              THEN Raise([rekey.self EXCEPT !.key = rekey.retval], "AssertionError")
              ELSE Return([rekey.self EXCEPT !.key = rekey.retval], retval))))

\* for i in xrange(num_full_blocks): retval.append(self._pseudo_random_data(1<<20))
RECURSIVE full_chunks(_, _, _)
full_chunks(st, i, num_full_blocks) ==
    IF i >= num_full_blocks \/ st.err # "ok" THEN st
    ELSE Bind(_pseudo_random_data(st.self, chunk_size), LAMBDA c :
         Bind([self |-> c.self, err |-> c.err, retval |-> join(st.retval, c.retval)],
              LAMBDA nxt : full_chunks(nxt, i + 1, num_full_blocks)))

\* pseudo_random_data that processes the last chunk only when it is not empty
pseudo_random_data_skip_empty(self, bytes) ==
    IF ~(bytes >= 0) THEN Raise(self, "AssertionError")
    ELSE Bind(full_chunks(Return(self, << >>), 0, bytes \div chunk_size), LAMBDA full :
         IF full.err # "ok" THEN Raise(full.self, full.err)
         ELSE IF bytes % chunk_size = 0 /\ bytes # 0 THEN full
         ELSE Bind(_pseudo_random_data(full.self, bytes % chunk_size), LAMBDA last :
              IF last.err # "ok" THEN Raise(last.self, last.err)
              ELSE Return(last.self, join(full.retval, last.retval))))

pseudo_random_data(self, bytes) ==
    IF ~(bytes >= 0) THEN Raise(self, "AssertionError")
    ELSE Bind(full_chunks(Return(self, << >>), 0, bytes \div chunk_size), LAMBDA full :
         IF full.err # "ok" THEN Raise(full.self, full.err)
         ELSE Bind(_pseudo_random_data(full.self, bytes % chunk_size), LAMBDA last :
              IF last.err # "ok" THEN Raise(last.self, last.err)
              ELSE Return(last.self, join(full.retval, last.retval))))

\* reseed without the increment of line 67
reseed_no_increment(self, seed) ==
    Return([self EXCEPT !.key = SHAd256(join(self.key, seed))], << >>)

\* reseed that also hashes in the number of calls made so far on any instance
reseed_call_count(self, seed) ==
    Return([self EXCEPT
              !.key = SHAd256(join(join(self.key, seed),
                                   Seg("seed", << >>, Len(log[1]) + Len(log[2]), 1))),
              !.counter = self.counter + 1], << >>)

\* reseed that restarts the counter at 1 after the key change
reseed_reset(self, seed) ==
    Return([self EXCEPT !.key = SHAd256(join(self.key, seed)), !.counter = 1], << >>)

reseed(self, seed) ==
    Bind(SHAd256(join(self.key, seed)), LAMBDA key :
         IF ByteLen(key) # key_size
         THEN Raise([self EXCEPT !.key = key, !.counter = self.counter + 1],
                    "AssertionError")
         ELSE Return([self EXCEPT !.key = key, !.counter = self.counter + 1], << >>))

(***************************************************************************)
(* The state: the generator instances, the record of the calls made on     *)
(* each, and the encode_counter call under test.                           *)
(***************************************************************************)
\* what a call record keeps of an instance: its attributes, and how many
\* entries its block history has
Snapshot(self) == [key |-> self.key, counter |-> self.counter, nblocks |-> Len(self.blocks)]

Call(op, seed, n, before, r) ==
    [op |-> op, seed |-> seed, n |-> n, before |-> Snapshot(before),
     after |-> Snapshot(r.self), err |-> r.err, retval |-> r.retval]

NoEnc == [n |-> long(0), size |-> 0, err |-> "none", retval |-> << >>]

NoWide == [counter |-> long(0), fed |-> << >>, calls |-> << >>]

Threads == {1, 2}

\* a thread that has made no call
Idle == [pc |-> "idle", op |-> "none", seed |-> << >>, bytes |-> 0, phase |-> "none",
         num_blocks |-> 0, i |-> 0, counter |-> 0, key |-> << >>,
         blocks |-> << >>, retval |-> << >>, err |-> "none"]

NoThr == [mode |-> "none", lock |-> 0, key |-> << >>, counter |-> 0, start |-> 0,
          used |-> << >>, stores |-> 0, loc |-> [t \in Threads |-> Idle]]

InitGen ==
    /\ gen = [i \in Instances |-> __init__]
    /\ log = [i \in Instances |-> << >>]

Reseed(i, s) ==
    \E r \in {reseed(gen[i], SeedBytes(s))} :
        /\ gen' = [gen EXCEPT ![i] = r.self]
        /\ log' = [log EXCEPT ![i] = Append(@, Call("reseed", SeedBytes(s), 0, gen[i], r))]
        /\ UNCHANGED <<enc, wide, thr>>

PseudoRandomData(i, n) ==
    \E r \in {pseudo_random_data(gen[i], n)} :
        /\ gen' = [gen EXCEPT ![i] = r.self]
        /\ log' = [log EXCEPT ![i] = Append(@, Call("pseudo_random_data", << >>, n, gen[i], r))]
        /\ UNCHANGED <<enc, wide, thr>>

\* a direct call of the chunk operation
PseudoRandomDataChunk(i, b) ==
    \E r \in {_pseudo_random_data(gen[i], b)} :
        /\ gen' = [gen EXCEPT ![i] = r.self]
        /\ log' = [log EXCEPT ![i] = Append(@, Call("_pseudo_random_data", << >>, b, gen[i], r))]
        /\ UNCHANGED <<enc, wide, thr>>

\* a direct call of the block-generation primitive
GenerateBlocks(i, num_blocks) ==
    \E r \in {_generate_blocks(gen[i], num_blocks)} :
        /\ gen' = [gen EXCEPT ![i] = r.self]
        /\ log' = [log EXCEPT ![i] = Append(@, Call("_generate_blocks", << >>, num_blocks, gen[i], r))]
        /\ UNCHANGED <<enc, wide, thr>>

\* the sizes of the direct calls: below, at and above the ends of the ranges
InternalSizes == {0, block_size + 1}
InternalBytes == {-1, 0, 1, block_size + 1, max_bytes_per_request, max_bytes_per_request + 1}
InternalBlocks == {-1, 0, 1, max_blocks_per_request, max_blocks_per_request + 1}

\* the values a digit of an input takes
DigitValues == {0, 1, 4, 255, 256, 512, PyLong_BASE - 1}

\* the inputs n of encode_counter: 0, -1, and the positive longs of at most
\* MaxDigits digits drawn from DigitValues
EncNumbers ==
    {long(0), [sign |-> -1, digits |-> <<1>>]}
        \cup {[sign |-> 1, digits |-> ds] :
                ds \in {d \in UNION {[1..k -> DigitValues] : k \in 1..MaxDigits} :
                          d[Len(d)] # 0}}

\* the widths: -1 (outside the encoder's domain), 0 .. MaxSize, and the block size
EncSizes == (-1..MaxSize) \cup {block_size}

InitEnc ==
    /\ gen = [i \in Instances |-> __init__]
    /\ log = [i \in Instances |-> << >>]
    /\ enc \in {[n |-> n, size |-> size, err |-> "none", retval |-> << >>] :
                  n \in EncNumbers, size \in EncSizes}
    /\ wide = NoWide
    /\ thr = NoThr

EncodeCounter ==
    /\ enc.err = "none"
    /\ \E r \in {encode_counter(enc.n, enc.size)} :
           enc' = [enc EXCEPT !.err = r.err, !.retval = r.retval]
    /\ UNCHANGED <<gen, log, wide, thr>>

Init == InitGen /\ enc = NoEnc /\ wide = NoWide /\ thr = NoThr

(***************************************************************************)
(* The counter as the Python long it is, near the width of a block.        *)
(* wide.counter is self.counter, wide.fed the counter blocks handed to the *)
(* cipher with the counter value of each, wide.calls the _generate_blocks  *)
(* calls made.                                                             *)
(***************************************************************************)
\* the digits of ds + 1: self.counter += 1 of line 108
RECURSIVE Increment(_)
Increment(ds) ==
    IF ds = << >> THEN <<1>>
    ELSE IF Head(ds) < PyLong_BASE - 1 THEN <<Head(ds) + 1>> \o Tail(ds)
    ELSE <<0>> \o Increment(Tail(ds))

\* the digits of ds - 1, for ds > 0
RECURSIVE Decrement(_)
Decrement(ds) ==
    IF Head(ds) > 0 THEN Normalize(<<Head(ds) - 1>> \o Tail(ds))
    ELSE <<PyLong_BASE - 1>> \o Decrement(Tail(ds))

RECURSIVE Minus(_, _)
Minus(ds, k) == IF k = 0 THEN ds ELSE Minus(Decrement(ds), k - 1)

\* 2 ^ (8 * size) as digits: 1 followed by size zero bytes
RECURSIVE TwoToThe8(_)
TwoToThe8(size) ==
    IF size = 0 THEN <<1>>
    ELSE Bind(TwoToThe8(size - 1), LAMBDA p :
         Normalize([j \in 1..(Len(p) + 1) |->
            ((IF j <= Len(p) THEN p[j] * 256 ELSE 0)
               + (IF j > 1 THEN (p[j - 1] * 256) \div PyLong_BASE ELSE 0)) % PyLong_BASE]))

\* the block the cipher is given for counter (lines 137-138), or the error
generate_single_block_long(counter) ==
    IF counter.sign = 0 THEN [err |-> "ZeroCounter", retval |-> << >>]
    ELSE encode_counter(counter, block_size)

\* the loop of lines 106-108 on st = [counter, fed, err]
RECURSIVE generate_blocks_long(_, _, _)
generate_blocks_long(st, i, num_blocks) ==
    IF i >= num_blocks \/ st.err # "ok" THEN st
    ELSE Bind(generate_single_block_long(st.counter), LAMBDA b :
         IF b.err # "ok" THEN [st EXCEPT !.err = b.err]
         ELSE generate_blocks_long(
                [counter |-> MkLong(Increment(st.counter.digits)),
                 fed |-> Append(st.fed, [counter |-> st.counter, block |-> b.retval]),
                 err |-> "ok"], i + 1, num_blocks))

\* the counter values the runs start at: 2^(8 * block_size) - MaxBelow and up
LongStarts == {MkLong(Minus(TwoToThe8(block_size), k)) : k \in 0..MaxBelow}

\* the numbers of blocks asked for
LongBlocks == {0, 1, 2, 3}

InitLong ==
    /\ gen = [i \in Instances |-> __init__]
    /\ log = [i \in Instances |-> << >>]
    /\ enc = NoEnc
    /\ wide \in {[counter |-> c, fed |-> << >>, calls |-> << >>] : c \in LongStarts}
    /\ thr = NoThr

\* _generate_blocks(num_blocks) on the long counter
GenerateBlocksLong(num_blocks) ==
    /\ Len(wide.calls) < MaxLongCalls
    /\ \E r \in {IF wide.counter.sign = 0
                  THEN [counter |-> wide.counter, fed |-> wide.fed, err |-> "NotSeeded"]
                  ELSE IF ~(0 <= num_blocks /\ num_blocks <= max_blocks_per_request)
                  THEN [counter |-> wide.counter, fed |-> wide.fed, err |-> "AssertionError"]
                  ELSE generate_blocks_long(
                         [counter |-> wide.counter, fed |-> wide.fed, err |-> "ok"],
                         0, num_blocks)} :
           wide' = [counter |-> r.counter, fed |-> r.fed,
                    calls |-> Append(wide.calls,
                                [before |-> wide.counter, num_blocks |-> num_blocks,
                                 err |-> r.err, after |-> r.counter,
                                 nfed |-> Len(r.fed) - Len(wide.fed)])]
    /\ UNCHANGED <<gen, log, enc, thr>>

NextLong == \E num_blocks \in LongBlocks : GenerateBlocksLong(num_blocks)

SpecLong == InitLong /\ [][NextLong]_vars

Next ==
    \/ \E s \in Seeds : Len(log[1]) < MaxCalls /\ Reseed(1, s)
    \/ \E n \in Sizes : Len(log[1]) < MaxCalls /\ PseudoRandomData(1, n)

Spec == Init /\ [][Next]_vars

PairBudget == Len(log[1]) + Len(log[2]) < MaxPairCalls

NextPair ==
    \/ \E i \in Instances, s \in PairSeeds : PairBudget /\ Reseed(i, s)
    \/ \E i \in Instances, n \in PairSizes : PairBudget /\ PseudoRandomData(i, n)

SpecPair == Init /\ [][NextPair]_vars

SpecEnc == InitEnc /\ [][EncodeCounter]_vars

\* the public operations together with direct calls of the two internal ones
NextInternal ==
    \/ \E s \in Seeds : Len(log[1]) < MaxInternalCalls /\ Reseed(1, s)
    \/ \E n \in InternalSizes : Len(log[1]) < MaxInternalCalls /\ PseudoRandomData(1, n)
    \/ \E b \in InternalBytes : Len(log[1]) < MaxInternalCalls /\ PseudoRandomDataChunk(1, b)
    \/ \E num_blocks \in InternalBlocks :
           Len(log[1]) < MaxInternalCalls /\ GenerateBlocks(1, num_blocks)

SpecInternal == Init /\ [][NextInternal]_vars

(***************************************************************************)
(* Two threads on one instance, one attribute read or write per step.      *)
(* thr.key and thr.counter are the attributes of the shared instance;      *)
(* thr.loc[t] holds the position and the local values of thread t;         *)
(* thr.used lists the (key, counter) pair of every block generated and     *)
(* thr.stores counts the executions of counter += 1.  In mode "atomic" the *)
(* callers hold a lock around each call; in mode "interleaved" they do not.*)
(***************************************************************************)
ThreadSeeds == {<<1, MaxSeedLen>>}
ThreadSizes == {0, 1}

\* thread t may take a step of its call
MayRun(t) == thr.mode = "interleaved" \/ thr.lock = t

Goto(t, pc) == [thr.loc[t] EXCEPT !.pc = pc]

\* the end of the call of thread t, with local state l
Finish(t, l) == [thr EXCEPT !.loc[t] = [l EXCEPT !.pc = "done"], !.lock = 0]

InitThreads ==
    /\ gen = [i \in Instances |-> __init__]
    /\ log = [i \in Instances |-> << >>]
    /\ enc = NoEnc
    /\ wide = NoWide
    /\ \E mode \in {"atomic", "interleaved"}, s \in ThreadSeeds :
         thr = [NoThr EXCEPT !.mode = mode,
                             !.key = reseed(__init__, SeedBytes(s)).self.key,
                             !.counter = reseed(__init__, SeedBytes(s)).self.counter,
                             !.start = reseed(__init__, SeedBytes(s)).self.counter]

\* thread t calls reseed(seed)
BeginReseed(t, s) ==
    /\ thr.loc[t].pc = "idle"
    /\ thr.mode = "atomic" => thr.lock = 0
    /\ thr' = [thr EXCEPT !.lock = IF thr.mode = "atomic" THEN t ELSE 0,
                          !.loc[t] = [Idle EXCEPT !.pc = "reseed_load_key", !.op = "reseed",
                                                  !.seed = SeedBytes(s)]]
    /\ UNCHANGED <<gen, log, enc, wide>>

\* line 66, the read of self.key
ReseedLoadKey(t) ==
    /\ thr.loc[t].pc = "reseed_load_key" /\ MayRun(t)
    /\ thr' = [thr EXCEPT !.loc[t] = [@ EXCEPT !.pc = "reseed_store_key", !.key = thr.key]]
    /\ UNCHANGED <<gen, log, enc, wide>>

\* line 66, the write of self.key
ReseedStoreKey(t) ==
    /\ thr.loc[t].pc = "reseed_store_key" /\ MayRun(t)
    /\ thr' = [thr EXCEPT !.key = SHAd256(join(thr.loc[t].key, thr.loc[t].seed)),
                          !.loc[t] = Goto(t, "reseed_load_counter")]
    /\ UNCHANGED <<gen, log, enc, wide>>

\* line 67, the read of self.counter
ReseedLoadCounter(t) ==
    /\ thr.loc[t].pc = "reseed_load_counter" /\ MayRun(t)
    /\ thr' = [thr EXCEPT !.loc[t] = [@ EXCEPT !.pc = "reseed_store_counter",
                                               !.counter = thr.counter]]
    /\ UNCHANGED <<gen, log, enc, wide>>

\* line 67, the write of self.counter
ReseedStoreCounter(t) ==
    /\ thr.loc[t].pc = "reseed_store_counter" /\ MayRun(t)
    /\ thr' = [Finish(t, thr.loc[t]) EXCEPT !.counter = thr.loc[t].counter + 1,
                                            !.stores = @ + 1]
    /\ UNCHANGED <<gen, log, enc, wide>>

\* thread t calls pseudo_random_data(bytes), bytes < chunk_size: the one chunk
\* _pseudo_random_data(bytes), up to its first _generate_blocks call
BeginPseudoRandomData(t, bytes) ==
    /\ thr.loc[t].pc = "idle"
    /\ thr.mode = "atomic" => thr.lock = 0
    /\ thr' = [thr EXCEPT !.lock = IF thr.mode = "atomic" THEN t ELSE 0,
                          !.loc[t] = [Idle EXCEPT !.pc = "check_seeded",
                                                  !.op = "pseudo_random_data",
                                                  !.bytes = bytes, !.phase = "output",
                                                  !.num_blocks =
                                                      ceil_shift(bytes, block_size_shift)]]
    /\ UNCHANGED <<gen, log, enc, wide>>

\* where thread t goes after iteration i - 1 of the loop of _generate_blocks
\* with local state l: the next iteration, the second _generate_blocks call of
\* line 94, or the write of line 94
AfterBlock(l) ==
    IF l.i < l.num_blocks THEN [l EXCEPT !.pc = "load_counter"]
    ELSE IF l.phase = "output"
    THEN [l EXCEPT !.pc = "check_seeded", !.phase = "rekey",
                   !.retval = Slice(l.blocks, l.bytes), !.blocks = << >>,
                   !.i = 0, !.num_blocks = blocks_per_key]
    ELSE [l EXCEPT !.pc = "store_key"]

\* lines 102-103, the read of self.counter
CheckSeeded(t) ==
    /\ thr.loc[t].pc = "check_seeded" /\ MayRun(t)
    /\ thr' = IF thr.counter = 0
              THEN Finish(t, [thr.loc[t] EXCEPT !.err = "NotSeeded"])
              ELSE [thr EXCEPT !.loc[t] = AfterBlock(thr.loc[t])]
    /\ UNCHANGED <<gen, log, enc, wide>>

\* line 107, the read of self.counter for the argument
LoadCounter(t) ==
    /\ thr.loc[t].pc = "load_counter" /\ MayRun(t)
    /\ thr' = [thr EXCEPT !.loc[t] = [@ EXCEPT !.pc = "generate", !.counter = thr.counter]]
    /\ UNCHANGED <<gen, log, enc, wide>>

\* line 138, the read of self.key and the block
GenerateSingleBlock(t) ==
    /\ thr.loc[t].pc = "generate" /\ MayRun(t)
    /\ thr' = [thr EXCEPT
                 !.used = Append(@, [k |-> thr.key, x |-> thr.loc[t].counter]),
                 !.loc[t] = [@ EXCEPT
                     !.pc = "load_counter_again",
                     !.blocks = join(@, Seg("aes", thr.key, thr.loc[t].counter, block_size))]]
    /\ UNCHANGED <<gen, log, enc, wide>>

\* line 108, the read of self.counter
LoadCounterAgain(t) ==
    /\ thr.loc[t].pc = "load_counter_again" /\ MayRun(t)
    /\ thr' = [thr EXCEPT !.loc[t] = [@ EXCEPT !.pc = "store_counter",
                                               !.counter = thr.counter]]
    /\ UNCHANGED <<gen, log, enc, wide>>

\* line 108 without its write of self.counter
StoreCounterDropped(t) ==
    /\ thr.loc[t].pc = "store_counter" /\ MayRun(t)
    /\ thr' = [thr EXCEPT !.stores = @ + 1,
                          !.loc[t] = AfterBlock([thr.loc[t] EXCEPT !.i = @ + 1])]
    /\ UNCHANGED <<gen, log, enc, wide>>

\* line 108, the write of self.counter
StoreCounter(t) ==
    /\ thr.loc[t].pc = "store_counter" /\ MayRun(t)
    /\ thr' = [thr EXCEPT !.counter = thr.loc[t].counter + 1,
                          !.stores = @ + 1,
                          !.loc[t] = AfterBlock([thr.loc[t] EXCEPT !.i = @ + 1])]
    /\ UNCHANGED <<gen, log, enc, wide>>

\* line 94, the write of self.key
StoreKey(t) ==
    /\ thr.loc[t].pc = "store_key" /\ MayRun(t)
    /\ thr' = [Finish(t, thr.loc[t]) EXCEPT !.key = thr.loc[t].blocks]
    /\ UNCHANGED <<gen, log, enc, wide>>

NextThreads ==
    \/ \E t \in Threads, s \in ThreadSeeds : BeginReseed(t, s)
    \/ \E t \in Threads : ReseedLoadKey(t)
    \/ \E t \in Threads : ReseedStoreKey(t)
    \/ \E t \in Threads : ReseedLoadCounter(t)
    \/ \E t \in Threads : ReseedStoreCounter(t)
    \/ \E t \in Threads, bytes \in ThreadSizes : BeginPseudoRandomData(t, bytes)
    \/ \E t \in Threads : CheckSeeded(t)
    \/ \E t \in Threads : LoadCounter(t)
    \/ \E t \in Threads : GenerateSingleBlock(t)
    \/ \E t \in Threads : LoadCounterAgain(t)
    \/ \E t \in Threads : StoreCounter(t)
    \/ \E t \in Threads : StoreKey(t)

SpecThreads == InitThreads /\ [][NextThreads]_vars

(***************************************************************************)
(* Properties of the generator.                                            *)
(***************************************************************************)
Reseeded(i) == \E j \in DOMAIN log[i] : log[i][j].op = "reseed"

\* the history entries of the blocks generated during call c
NewBlocks(i, c) == SubSeq(gen[i].blocks, c.before.nblocks + 1, c.after.nblocks)

RECURSIVE BlockCount(_)
BlockCount(bs) == IF bs = << >> THEN 0 ELSE Head(bs).n + BlockCount(Tail(bs))

\* The closed form of _generate_blocks is the loop run iteration by iteration:
\* same blocks, same counter, same outcome, for 0 .. MaxLoopBlocks blocks.
GenerateBlocksIsItsLoop ==
    \A i \in Instances : \A num_blocks \in 0..MaxLoopBlocks :
        gen[i].counter # 0 =>
            /\ _generate_blocks(gen[i], num_blocks).retval
                 = generate_blocks_loop(Return(gen[i], << >>), 0, num_blocks).retval
            /\ _generate_blocks(gen[i], num_blocks).self.counter
                 = generate_blocks_loop(Return(gen[i], << >>), 0, num_blocks).self.counter
            /\ _generate_blocks(gen[i], num_blocks).err
                 = generate_blocks_loop(Return(gen[i], << >>), 0, num_blocks).err

\* C1: pseudo_random_data(n) called while counter == 0 fails with NotSeeded for
\* every n >= 0, n == 0 included, returns no byte and generates no block.
C1_NotSeededFails ==
    \A i \in Instances : \A j \in DOMAIN log[i] :
        (log[i][j].op = "pseudo_random_data" /\ log[i][j].before.counter = 0)
            => /\ log[i][j].err = "NotSeeded"
               /\ log[i][j].retval = << >>
               /\ NewBlocks(i, log[i][j]) = << >>

C1_Witness ==
    /\ \E j \in DOMAIN log[1] :
        /\ log[1][j].op = "pseudo_random_data" /\ log[1][j].before.counter = 0
        /\ log[1][j].n = 0 /\ log[1][j].err = "NotSeeded"
    /\ \E j \in DOMAIN log[1] :
        /\ log[1][j].op = "pseudo_random_data" /\ log[1][j].before.counter = 0
        /\ log[1][j].n = 2 * chunk_size /\ log[1][j].err = "NotSeeded"

\* C2: counter == 0 exactly when reseed has never been called; a seeded generator
\* stays seeded; no block is ever generated from counter value 0.
C2_SeededIffReseeded ==
    /\ [](\A i \in Instances :
            /\ (gen[i].counter = 0) <=> ~Reseeded(i)
            /\ \A b \in DOMAIN gen[i].blocks : gen[i].blocks[b].x # 0
            /\ \A j \in DOMAIN log[i] :
                 log[i][j].before.counter = 0 => NewBlocks(i, log[i][j]) = << >>)
    /\ [][\A i \in Instances : gen[i].counter # 0 => gen'[i].counter # 0]_vars

C2_Witness ==
    /\ Len(log[1]) = MaxCalls
    /\ log[1][1].op = "pseudo_random_data" /\ log[1][1].err = "NotSeeded"
    /\ log[1][2].op = "reseed"
    /\ log[1][3].op = "pseudo_random_data" /\ log[1][3].err = "ok"
    /\ gen[1].counter # 0

\* C3: on a seeded generator pseudo_random_data(n) succeeds and returns exactly n
\* bytes, for every n >= 0.
C3_ExactLength ==
    \A i \in Instances : \A j \in DOMAIN log[i] :
        (log[i][j].op = "pseudo_random_data" /\ log[i][j].before.counter # 0)
            => /\ log[i][j].err = "ok"
               /\ ByteLen(log[i][j].retval) = log[i][j].n

C3_Witness ==
    \E j, k \in DOMAIN log[1] :
        /\ log[1][j].op = "pseudo_random_data" /\ log[1][j].err = "ok"
        /\ log[1][j].n = chunk_size + 1 /\ ByteLen(log[1][j].retval) = chunk_size + 1
        /\ log[1][k].op = "pseudo_random_data" /\ log[1][k].err = "ok"
        /\ log[1][k].n = block_size + 1 /\ ByteLen(log[1][k].retval) = block_size + 1

\* C4: every call advances counter by exactly the number of blocks it generates
\* (output and re-keying blocks alike; reseed by 1), counter never decreases, and
\* the blocks of one instance are generated from strictly increasing counter
\* values, so never twice from one (key, counter) pair.
C4_CounterPerBlock ==
    /\ [](\A i \in Instances :
            /\ \A j \in DOMAIN log[i] :
                 log[i][j].after.counter =
                     log[i][j].before.counter + BlockCount(NewBlocks(i, log[i][j]))
                         + (IF log[i][j].op = "reseed" THEN 1 ELSE 0)
            /\ \A a, b \in DOMAIN gen[i].blocks :
                 a < b => gen[i].blocks[a].x + gen[i].blocks[a].n <= gen[i].blocks[b].x
            /\ \A b \in DOMAIN gen[i].blocks :
                 gen[i].blocks[b].x + gen[i].blocks[b].n <= gen[i].counter)
    /\ [][\A i \in Instances : gen'[i].counter >= gen[i].counter]_vars

C4_Witness ==
    /\ Len(gen[1].blocks) >= 4
    /\ \E j \in DOMAIN log[1] : log[1][j].op = "reseed" /\ log[1][j].before.counter # 0
    /\ \E j \in DOMAIN log[1] :
        log[1][j].op = "pseudo_random_data" /\ Len(NewBlocks(1, log[1][j])) >= 3

\* the (key, counter) pairs of byte strings a and b are disjoint
DisjointPairs(a, b) ==
    \A p \in DOMAIN a : \A q \in DOMAIN b :
        \/ a[p].k # b[q].k
        \/ a[p].x + ceil_shift(a[p].n, block_size_shift) <= b[q].x
        \/ b[q].x + ceil_shift(b[q].n, block_size_shift) <= a[p].x

\* C6: two successive pseudo_random_data(chunk_size) calls with no reseed between
\* them return different outputs: the second starts from another key and another
\* counter, and none of its blocks comes from a (key, counter) pair of the first.
C6_RekeyObservable ==
    \A i \in Instances : \A j \in DOMAIN log[i] :
        (/\ j + 1 \in DOMAIN log[i]
         /\ log[i][j].op = "pseudo_random_data" /\ log[i][j].n = chunk_size
         /\ log[i][j].err = "ok"
         /\ log[i][j + 1].op = "pseudo_random_data" /\ log[i][j + 1].n = chunk_size)
            => /\ log[i][j + 1].err = "ok"
               /\ log[i][j + 1].retval # log[i][j].retval
               /\ log[i][j + 1].before.key # log[i][j].before.key
               /\ log[i][j + 1].before.counter # log[i][j].before.counter
               /\ DisjointPairs(log[i][j].retval, log[i][j + 1].retval)

C6_Witness ==
    \E j \in DOMAIN log[1] :
        /\ j + 1 \in DOMAIN log[1]
        /\ log[1][j].op = "pseudo_random_data" /\ log[1][j].n = chunk_size
        /\ log[1][j + 1].op = "pseudo_random_data" /\ log[1][j + 1].n = chunk_size
        /\ ByteLen(log[1][j].retval) = chunk_size
        /\ ByteLen(log[1][j + 1].retval) = chunk_size

\* C8: reseed(seed) succeeds in the unseeded and in the seeded state, for a seed
\* of any length; the new key is Hash(old key || seed) and counter grows by 1.
C8_Reseed ==
    \A i \in Instances : \A j \in DOMAIN log[i] :
        log[i][j].op = "reseed"
            => /\ log[i][j].err = "ok"
               /\ log[i][j].after.key =
                    <<[f |-> "hash", k |-> log[i][j].before.key \o log[i][j].seed,
                       x |-> 0, n |-> key_size]>>
               /\ log[i][j].after.counter = log[i][j].before.counter + 1

C8_Witness ==
    \E j, k \in DOMAIN log[1] :
        /\ log[1][j].op = "reseed" /\ log[1][j].before.counter = 0
        /\ log[1][j].seed = << >> /\ log[1][j].after.counter = 1
        /\ log[1][k].op = "reseed" /\ log[1][k].before.counter > 1
        /\ ByteLen(log[1][k].seed) = MaxSeedLen
        /\ log[1][k].after.counter = log[1][k].before.counter + 1

(***************************************************************************)
(* Chunks.  Every chunk runs under a key of its own, so the chunks of a    *)
(* call are the groups of successive history entries with one key.         *)
(***************************************************************************)
\* the keys of the successive groups of history entries bs
RECURSIVE ChunkKeys(_)
ChunkKeys(bs) ==
    IF bs = << >> THEN << >>
    ELSE IF Len(bs) >= 2 /\ bs[2].k = bs[1].k THEN ChunkKeys(Tail(bs))
    ELSE <<bs[1].k>> \o ChunkKeys(Tail(bs))

\* the number of bytes of byte string s that were generated under key
RECURSIVE BytesUnder(_, _)
BytesUnder(s, key) ==
    IF s = << >> THEN 0
    ELSE (IF Head(s).f = "aes" /\ Head(s).k = key THEN Head(s).n ELSE 0)
            + BytesUnder(Tail(s), key)

\* the number of blocks that n bytes take
BlocksFor(n) == (n + block_size - 1) \div block_size

\* the sizes of the chunks of a request of n bytes, in order
ChunkSizes(n) ==
    [m \in 1..((n \div chunk_size) + 1) |->
        IF m <= n \div chunk_size THEN chunk_size ELSE n % chunk_size]

SeededCall(c) == c.op = "pseudo_random_data" /\ c.before.counter # 0

\* C12: pseudo_random_data(n) on a seeded generator processes floor(n / chunk_size)
\* + 1 chunks: the full chunks first, then one of n mod chunk_size bytes, also when
\* that is 0 bytes; every chunk runs under the key the chunk before it installed,
\* and the key is replaced once per chunk.
C12_ChunkSequence ==
    \A i \in Instances : \A j \in DOMAIN log[i] :
        SeededCall(log[i][j]) =>
            /\ Len(ChunkKeys(NewBlocks(i, log[i][j]))) = (log[i][j].n \div chunk_size) + 1
            /\ ChunkKeys(NewBlocks(i, log[i][j]))[1] = log[i][j].before.key
            /\ \A m \in DOMAIN ChunkKeys(NewBlocks(i, log[i][j])) :
                 /\ BytesUnder(log[i][j].retval, ChunkKeys(NewBlocks(i, log[i][j]))[m])
                      = ChunkSizes(log[i][j].n)[m]
                 /\ m > 1 =>
                      /\ ChunkKeys(NewBlocks(i, log[i][j]))[m][1].f = "aes"
                      /\ ChunkKeys(NewBlocks(i, log[i][j]))[m][1].k
                           = ChunkKeys(NewBlocks(i, log[i][j]))[m - 1]
            /\ log[i][j].after.key[1].f = "aes"
            /\ log[i][j].after.key[1].k
                 = ChunkKeys(NewBlocks(i, log[i][j]))[(log[i][j].n \div chunk_size) + 1]
            /\ \A p, q \in DOMAIN log[i][j].retval :
                 p < q => log[i][j].retval[p].x < log[i][j].retval[q].x

C12_Witness ==
    /\ \E j \in DOMAIN log[1] :
         /\ SeededCall(log[1][j]) /\ log[1][j].n = 0 /\ log[1][j].err = "ok"
         /\ Len(ChunkKeys(NewBlocks(1, log[1][j]))) = 1
         /\ log[1][j].after.key # log[1][j].before.key
    /\ \E j \in DOMAIN log[1] :
         /\ SeededCall(log[1][j]) /\ log[1][j].n = 2 * chunk_size
         /\ Len(ChunkKeys(NewBlocks(1, log[1][j]))) = 3

\* C14: the key an instance holds after a pseudo_random_data call has returned is
\* not the key of any block of the output of that call or of an earlier call.
C14_KeyOverwritten ==
    \A i \in Instances : \A j, l \in DOMAIN log[i] :
        (j <= l /\ log[i][j].op = "pseudo_random_data")
            => \A p \in DOMAIN log[i][j].retval :
                 /\ log[i][j].retval[p].k # log[i][l].after.key
                 /\ log[i][j].retval[p].k # gen[i].key

C14_Witness ==
    \E j, l \in DOMAIN log[1] :
        /\ j < l
        /\ log[1][j].op = "pseudo_random_data" /\ ByteLen(log[1][j].retval) = chunk_size + 1
        /\ log[1][l].op = "pseudo_random_data" /\ ByteLen(log[1][l].retval) = 1

\* the keys under which some output byte of instance i was generated
OutputKeys(i) ==
    UNION {{log[i][j].retval[p].k : p \in DOMAIN log[i][j].retval} : j \in DOMAIN log[i]}

\* the number of blocks of the output of instance i generated under key
RECURSIVE OutputBlocksUnder(_, _, _)
OutputBlocksUnder(i, key, j) ==
    IF j = 0 THEN 0
    ELSE BlocksFor(BytesUnder(log[i][j].retval, key)) + OutputBlocksUnder(i, key, j - 1)

\* C15: the output blocks generated under one key value never number more than
\* max_blocks_per_request, over any sequence of reseed and pseudo_random_data calls.
C15_BlockCap ==
    \A i \in Instances : \A key \in OutputKeys(i) :
        OutputBlocksUnder(i, key, Len(log[i])) <= max_blocks_per_request

C15_Witness ==
    /\ Len(log[1]) = MaxCalls
    /\ \E key \in OutputKeys(1) :
         OutputBlocksUnder(1, key, Len(log[1])) = max_blocks_per_request
    /\ \E key \in OutputKeys(1) : OutputBlocksUnder(1, key, Len(log[1])) = 1

\* C17: with the AES parameters no chunk of a pseudo_random_data(n) call exceeds
\* max_bytes_per_request: the call never ends RequestTooLarge, the block-count
\* assertion of _generate_blocks never fails, and each of its chunks is one run
\* of at most max_blocks_per_request output blocks and one key replacement.
C17_ChunksFit ==
    \A i \in Instances : \A j \in DOMAIN log[i] :
        log[i][j].op = "pseudo_random_data" =>
            /\ \A m \in DOMAIN ChunkSizes(log[i][j].n) :
                 ChunkSizes(log[i][j].n)[m] <= max_bytes_per_request
            /\ log[i][j].err \in {"ok", "NotSeeded"}
            /\ \A b \in DOMAIN NewBlocks(i, log[i][j]) :
                 NewBlocks(i, log[i][j])[b].n <= max_blocks_per_request
            /\ log[i][j].err = "ok" =>
                 BlockCount(NewBlocks(i, log[i][j]))
                     = BlocksFor(log[i][j].n % chunk_size)
                         + (log[i][j].n \div chunk_size) * max_blocks_per_request
                         + ((log[i][j].n \div chunk_size) + 1) * blocks_per_key

C17_Witness ==
    \E j \in DOMAIN log[1] :
        /\ log[1][j].op = "pseudo_random_data" /\ log[1][j].err = "ok"
        /\ log[1][j].n = 2 * chunk_size
        /\ \E b \in DOMAIN NewBlocks(1, log[1][j]) :
             NewBlocks(1, log[1][j])[b].n = max_blocks_per_request

(***************************************************************************)
(* Properties of the internal operations, called directly or through       *)
(* pseudo_random_data.                                                     *)
(***************************************************************************)
\* call c processes exactly one chunk, of c.n bytes
OneChunk(c) ==
    \/ c.op = "_pseudo_random_data"
    \/ c.op = "pseudo_random_data" /\ c.n < chunk_size

\* C13: one chunk of b bytes from seeded (K, c) generates ceil(b / block_size)
\* blocks of counters c .. under K and returns their first b bytes, then blocks_per_key
\* blocks of the next counters under the same K, which become the new key, and
\* leaves counter == c + ceil(b / block_size) + blocks_per_key.
C13_ChunkLayout ==
    \A i \in Instances : \A j \in DOMAIN log[i] :
        (OneChunk(log[i][j]) /\ log[i][j].err = "ok") =>
            /\ NewBlocks(i, log[i][j])
                 = (IF log[i][j].n = 0 THEN << >>
                    ELSE <<[k |-> log[i][j].before.key, x |-> log[i][j].before.counter,
                            n |-> BlocksFor(log[i][j].n)]>>)
                   \o <<[k |-> log[i][j].before.key,
                         x |-> log[i][j].before.counter + BlocksFor(log[i][j].n),
                         n |-> blocks_per_key]>>
            /\ log[i][j].retval
                 = Seg("aes", log[i][j].before.key, log[i][j].before.counter, log[i][j].n)
            /\ log[i][j].after.key
                 = Seg("aes", log[i][j].before.key,
                       log[i][j].before.counter + BlocksFor(log[i][j].n),
                       blocks_per_key * block_size)
            /\ log[i][j].after.counter
                 = log[i][j].before.counter + BlocksFor(log[i][j].n) + blocks_per_key

C13_Witness ==
    /\ \E j \in DOMAIN log[1] :
         /\ log[1][j].op = "_pseudo_random_data" /\ log[1][j].err = "ok"
         /\ log[1][j].n = block_size + 1
         /\ log[1][j].after.counter = log[1][j].before.counter + 2 + blocks_per_key
    /\ \E j \in DOMAIN log[1] :
         /\ log[1][j].op = "pseudo_random_data" /\ log[1][j].err = "ok"
         /\ log[1][j].before.counter > 1

\* C16: _pseudo_random_data(b) fails with RequestTooLarge exactly when b < 0 or
\* b > max_bytes_per_request, seeded or not and with no block generated; on a
\* seeded generator every other b succeeds with exactly b bytes.
C16_RequestTooLarge ==
    \A i \in Instances : \A j \in DOMAIN log[i] :
        log[i][j].op = "_pseudo_random_data" =>
            /\ (log[i][j].n < 0 \/ log[i][j].n > max_blocks_per_request * block_size)
                 => /\ log[i][j].err = "RequestTooLarge"
                    /\ NewBlocks(i, log[i][j]) = << >>
                    /\ log[i][j].retval = << >>
            /\ (0 <= log[i][j].n /\ log[i][j].n <= max_blocks_per_request * block_size
                  /\ log[i][j].before.counter # 0)
                 => /\ log[i][j].err = "ok"
                    /\ ByteLen(log[i][j].retval) = log[i][j].n
            /\ (0 <= log[i][j].n /\ log[i][j].n <= max_blocks_per_request * block_size
                  /\ log[i][j].before.counter = 0)
                 => log[i][j].err = "NotSeeded"

C16_Witness ==
    /\ \E j \in DOMAIN log[1] :
         /\ log[1][j].op = "_pseudo_random_data" /\ log[1][j].before.counter = 0
         /\ log[1][j].n = max_bytes_per_request + 1 /\ log[1][j].err = "RequestTooLarge"
    /\ \E j \in DOMAIN log[1] :
         /\ log[1][j].op = "_pseudo_random_data" /\ log[1][j].n = max_bytes_per_request
         /\ log[1][j].err = "ok" /\ ByteLen(log[1][j].retval) = max_bytes_per_request

\* C18: in no sequence of reseed, pseudo_random_data, _pseudo_random_data and
\* _generate_blocks calls is a block generated from counter 0: the assertion of
\* _generate_single_block never fails, and a call that asks for blocks while
\* counter == 0 ends NotSeeded (or RequestTooLarge, before it asks).
C18_NeverCounterZero ==
    \A i \in Instances :
        /\ \A b \in DOMAIN gen[i].blocks : gen[i].blocks[b].x > 0
        /\ \A j \in DOMAIN log[i] :
             /\ log[i][j].err # "ZeroCounter"
             /\ \A p \in DOMAIN log[i][j].retval : log[i][j].retval[p].x > 0
             /\ (log[i][j].before.counter = 0 /\ log[i][j].op # "reseed")
                  => /\ log[i][j].err \in {"NotSeeded", "RequestTooLarge"}
                     /\ log[i][j].op = "_generate_blocks" => log[i][j].err = "NotSeeded"
                     /\ log[i][j].after.counter = 0

C18_Witness ==
    /\ \E j \in DOMAIN log[1] :
         /\ log[1][j].op = "_generate_blocks" /\ log[1][j].before.counter = 0
         /\ log[1][j].n = 1 /\ log[1][j].err = "NotSeeded"
    /\ \E j \in DOMAIN log[1] :
         /\ log[1][j].op = "_generate_blocks" /\ log[1][j].before.counter = 1
         /\ log[1][j].n = 1 /\ log[1][j].err = "ok"

\* C19: a pseudo_random_data, _pseudo_random_data or _generate_blocks call that
\* fails with NotSeeded or RequestTooLarge leaves key and counter as they were
\* and generates no block.
C19_FailureLeavesState ==
    \A i \in Instances : \A j \in DOMAIN log[i] :
        log[i][j].err \in {"NotSeeded", "RequestTooLarge"}
            => /\ log[i][j].after.key = log[i][j].before.key
               /\ log[i][j].after.counter = log[i][j].before.counter
               /\ log[i][j].after.nblocks = log[i][j].before.nblocks

C19_Witness ==
    /\ \E j \in DOMAIN log[1] :
         /\ log[1][j].op = "_pseudo_random_data" /\ log[1][j].err = "RequestTooLarge"
         /\ log[1][j].before.counter # 0
    /\ \E j \in DOMAIN log[1] :
         /\ log[1][j].op \in {"pseudo_random_data", "_generate_blocks"}
         /\ log[1][j].err = "NotSeeded"

(***************************************************************************)
(* Properties of two instances, or of two runs from one state.             *)
(***************************************************************************)
\* one pseudo_random_data(2 * chunk_size) call, and two successive
\* pseudo_random_data(chunk_size) calls, made from the same seeded state
ChunkBoundaryCase(one, first, second) ==
    /\ one.op = "pseudo_random_data" /\ one.n = 2 * chunk_size
    /\ first.op = "pseudo_random_data" /\ first.n = chunk_size
    /\ second.op = "pseudo_random_data" /\ second.n = chunk_size
    /\ one.before.counter # 0
    /\ first.before.key = one.before.key
    /\ first.before.counter = one.before.counter

\* C5 as stated: the output of pseudo_random_data(2 * chunk_size) equals the
\* concatenation of the outputs of two successive pseudo_random_data(chunk_size)
\* calls made from the same seeded state.
C5_ChunkBoundaryEquivalence ==
    \A a, b \in Instances : \A j \in DOMAIN log[a] : \A k \in DOMAIN log[b] :
        (k + 1 \in DOMAIN log[b]
            /\ ChunkBoundaryCase(log[a][j], log[b][k], log[b][k + 1]))
            => log[a][j].retval = join(log[b][k].retval, log[b][k + 1].retval)

\* C5 amended: the two agree on the first chunk_size bytes only.  The first of
\* the two calls ends with a zero-length chunk, which replaces the key and
\* advances counter by blocks_per_key; the second call's output therefore comes
\* from another key, and from counter values blocks_per_key higher, than the
\* second chunk of the single call, and the concatenation differs from it.
C5_FirstChunkOnly ==
    \A a, b \in Instances : \A j \in DOMAIN log[a] : \A k \in DOMAIN log[b] :
        (k + 1 \in DOMAIN log[b]
            /\ ChunkBoundaryCase(log[a][j], log[b][k], log[b][k + 1]))
            => /\ log[a][j].err = "ok" /\ log[b][k].err = "ok" /\ log[b][k + 1].err = "ok"
               /\ Slice(log[a][j].retval, chunk_size) = log[b][k].retval
               /\ Len(log[a][j].retval) = 2 /\ Len(log[b][k + 1].retval) = 1
               /\ log[b][k + 1].retval[1].k # log[a][j].retval[2].k
               /\ log[b][k + 1].retval[1].x = log[a][j].retval[2].x + blocks_per_key
               /\ log[a][j].retval # join(log[b][k].retval, log[b][k + 1].retval)

C5_Witness ==
    \E j \in DOMAIN log[1] : \E k \in DOMAIN log[2] :
        /\ k + 1 \in DOMAIN log[2]
        /\ ChunkBoundaryCase(log[1][j], log[2][k], log[2][k + 1])
        /\ ByteLen(log[1][j].retval) = 2 * chunk_size
        /\ ByteLen(log[2][k].retval) = chunk_size
        /\ ByteLen(log[2][k + 1].retval) = chunk_size

SameCall(c, d) == c.op = d.op /\ c.seed = d.seed /\ c.n = d.n

RECURSIVE MulAdd(_, _, _)
MulAdd(ds, m, a) ==
    IF ds = << >> THEN Digits(a)
    ELSE <<(Head(ds) * m + a) % PyLong_BASE>>
            \o MulAdd(Tail(ds), m, (Head(ds) * m + a) \div PyLong_BASE)

\* the digits of the integer whose little-endian bytes are bs
RECURSIVE FromLittleEndian(_)
FromLittleEndian(bs) ==
    IF bs = << >> THEN << >>
    ELSE Normalize(MulAdd(FromLittleEndian(Tail(bs)), 256, Head(bs)))

\* the digits of 256^k
RECURSIVE Pow256(_)
Pow256(k) == IF k = 0 THEN <<1>> ELSE MulAdd(Pow256(k - 1), 256, 0)

\* a < b, for digit sequences without leading zero
RECURSIVE DigitsLess(_, _)
DigitsLess(a, b) ==
    IF Len(a) # Len(b) THEN Len(a) < Len(b)
    ELSE IF a = << >> THEN FALSE
    ELSE IF a[Len(a)] # b[Len(b)] THEN a[Len(a)] < b[Len(b)]
    ELSE DigitsLess(SubSeq(a, 1, Len(a) - 1), SubSeq(b, 1, Len(b) - 1))

\* n fits a machine integer (n < 2^31)
IsSmall(n) == Len(n.digits) <= 2 \/ (Len(n.digits) = 3 /\ n.digits[3] <= 1)

RECURSIVE DigitsValue(_)
DigitsValue(ds) == IF ds = << >> THEN 0 ELSE Head(ds) + PyLong_BASE * DigitsValue(Tail(ds))

\* floor(v / 256^i) mod 256, for 0 <= v < 2^31
ByteOf(v, i) == IF i >= 4 THEN 0 ELSE (v \div (256 ^ i)) % 256

EncInRange == enc.n.sign = 1 /\ DigitsLess(enc.n.digits, Pow256(enc.size))

\* C9: for size >= 1 and 0 < n < 256^size, encode_counter(n, size) returns size
\* bytes, byte i being floor(n / 256^i) mod 256; read back as a little-endian
\* integer they give n; encode_counter(1, 16) is 1 followed by fifteen zeros.
C9_LittleEndian ==
    (enc.err # "none" /\ enc.size >= 1 /\ EncInRange)
        => /\ enc.err = "ok"
           /\ Len(enc.retval) = enc.size
           /\ \A i \in DOMAIN enc.retval : enc.retval[i] \in 0..255
           /\ FromLittleEndian(enc.retval) = enc.n.digits
           /\ IsSmall(enc.n) =>
                \A i \in DOMAIN enc.retval :
                    enc.retval[i] = ByteOf(DigitsValue(enc.n.digits), i - 1)
           /\ (enc.n = long(1) /\ enc.size = block_size) =>
                enc.retval = <<1, 0, 0, 0, 0, 0, 0, 0, 0, 0, 0, 0, 0, 0, 0, 0>>

C9_Witness ==
    /\ enc.err = "ok" /\ enc.size = MaxSize - 1
    /\ enc.n.digits = <<255, 256, 512>>
    /\ Len(enc.retval) = enc.size
    /\ enc.retval[1] = 255 /\ enc.retval[MaxSize - 1] # 0

\* C10: encode_counter(n, size) fails with InvalidCounter exactly when n <= 0,
\* whatever size is; for size >= 0 it fails with Overflow exactly when n > 0 and
\* n >= 256^size, and succeeds otherwise.
C10_Errors ==
    enc.err # "none"
        => /\ (enc.err = "InvalidCounter") <=> (enc.n.sign <= 0)
           /\ enc.size >= 0 =>
                /\ (enc.err = "Overflow") <=> (enc.n.sign = 1 /\ ~EncInRange)
                /\ (enc.err = "ok") <=> EncInRange

C10_Witness ==
    /\ enc.err = "Overflow" /\ enc.size = 4
    /\ enc.n = [sign |-> 1, digits |-> <<0, 0, 4>>]

(***************************************************************************)
(* Properties of the counter at the width of a block.                      *)
(***************************************************************************)
\* counter value c is 2^(8 * block_size) or more
AtLimit(c) == ~DigitsLess(c.digits, Pow256(block_size))

\* C20: the counter never wraps: every block given to the cipher is the exact
\* little-endian encoding of a counter value below 2^(8 * block_size), no two
\* are equal, a call that asks for a block when counter is 2^(8 * block_size)
\* fails with Overflow and feeds nothing, and counter never becomes 0 or less
\* than it was.
C20_NoWrap ==
    /\ wide.counter.sign = 1
    /\ \A p \in DOMAIN wide.fed :
         /\ Len(wide.fed[p].block) = block_size
         /\ FromLittleEndian(wide.fed[p].block) = wide.fed[p].counter.digits
         /\ ~AtLimit(wide.fed[p].counter)
         /\ \A q \in DOMAIN wide.fed : p # q => wide.fed[p].block # wide.fed[q].block
    /\ \A j \in DOMAIN wide.calls :
         /\ ~DigitsLess(wide.calls[j].after.digits, wide.calls[j].before.digits)
         /\ (AtLimit(wide.calls[j].before) /\ wide.calls[j].num_blocks > 0)
              => /\ wide.calls[j].err = "Overflow"
                 /\ wide.calls[j].after = wide.calls[j].before
                 /\ wide.calls[j].nfed = 0
         /\ wide.calls[j].err = "Overflow" => AtLimit(wide.calls[j].after)

C20_Witness ==
    /\ Len(wide.calls) = MaxLongCalls
    /\ ~AtLimit(wide.calls[1].before)
    /\ wide.calls[1].err = "ok"
    /\ wide.calls[2].err = "Overflow" /\ wide.calls[2].nfed > 0
    /\ wide.calls[3].err = "Overflow" /\ wide.calls[3].nfed = 0
    /\ wide.counter = MkLong(TwoToThe8(block_size))

(***************************************************************************)
(* Properties of two threads on one instance.                              *)
(***************************************************************************)
\* two blocks were generated from one (key, counter) pair
SamePairTwice == \E p, q \in DOMAIN thr.used : p < q /\ thr.used[p] = thr.used[q]

\* counter is less than its first value plus the number of counter += 1 executed
LostIncrement ==
    /\ \A t \in Threads : thr.loc[t].pc \in {"idle", "done"}
    /\ thr.counter < thr.start + thr.stores

\* a call run alone from (key, counter) and what the threads' calls did
AsOneStep(t, key, counter) ==
    IF thr.loc[t].op = "reseed"
    THEN reseed([key |-> key, counter |-> counter, blocks |-> << >>], thr.loc[t].seed)
    ELSE pseudo_random_data([key |-> key, counter |-> counter, blocks |-> << >>],
                            thr.loc[t].bytes)

\* C11: when every call on a shared instance runs under a lock, no two blocks
\* are generated from one (key, counter) pair, no increment of counter is lost,
\* and two finished calls leave what they leave run one after the other.
\* (Without the lock such states are reached: C11_Witness.)
C11_AtomicCallsAreSafe ==
    thr.mode = "atomic" =>
        /\ ~SamePairTwice
        /\ ~LostIncrement
        /\ \A u \in Threads \ {thr.lock} : thr.loc[u].pc \in {"idle", "done"}
        /\ (\A t \in Threads : thr.loc[t].pc = "done") =>
             \E t \in Threads, s \in ThreadSeeds : \E u \in Threads \ {t} :
                Bind(AsOneStep(t, reseed(__init__, SeedBytes(s)).self.key, thr.start),
                     LAMBDA first :
                        Bind(AsOneStep(u, first.self.key, first.self.counter),
                             LAMBDA second :
                                /\ second.self.key = thr.key
                                /\ second.self.counter = thr.counter
                                /\ first.retval = thr.loc[t].retval
                                /\ second.retval = thr.loc[u].retval))

C11_Witness ==
    /\ thr.mode = "interleaved"
    /\ \A t \in Threads : thr.loc[t].pc = "done"
    /\ SamePairTwice
    /\ LostIncrement
====
